---------------------------- MODULE Spec2Model ----------------------------
(* A model of widgy's versioning engine (widgy/models/versioning.py):      *)
(* VersionTracker and VersionCommit rows in a relational store, the Node   *)
(* trees they reference, and the tracker operations commit, revert_to,     *)
(* reset, has_changes, get_history(_list), get_published_node and delete,  *)
(* and VersionCommit.approve, one ORM statement per step.                  *)
EXTENDS Integers, Sequences, FiniteSets, TLC

\* ------------------------------------------------------------------ bounds
MaxTrees   == 5   \* Node trees ever allocated (primary keys are never reused)
MaxCommits == 3   \* VersionCommit rows ever inserted
MaxNow     == 2   \* the clock stops at this time

None     == 0           \* a null foreign key / no value
Trackers == {1, 2}      \* primary keys of the VersionTracker rows
Procs    == {1, 2}      \* callers (requests) that run tracker operations
Caller   == 1           \* the caller, where operations run one at a time
TreeIds   == 1..MaxTrees
CommitIds == 1..MaxCommits
Payloads  == {"a"}      \* payloads of a content node (opaque to the tracker)
Users     == {1, 2}     \* primary keys of the User rows that approve

VARIABLES
    trees,       \* Node trees in the store: root pk -> [content, frozen, ...]
    commits,     \* VersionCommit rows: pk -> [tracker, parent, root_node, ...]
    trackers,    \* VersionTracker rows: pk -> [head, working_copy]
    nextTree,    \* next Node primary key
    nextCommit,  \* next VersionCommit primary key
    now,         \* timezone.now()
    released,    \* per tree: how many times the store released it
    call         \* per caller: the operation in progress and its locals

vars == <<trees, commits, trackers, nextTree, nextCommit, now, released, call>>
dbVars == <<trees, commits, trackers, nextTree, nextCommit, now, released>>

\* ------------------------------------------------------ the content tree
\* A tree is its root's ordered children, each an opaque payload; the trees
\* of the model have no child or one.
TreeValues == UNION {[1..n -> Payloads] : n \in {0, 1}}

\* Node.trees_equal: same shape, equal payloads; identity and the frozen
\* flag do not take part.
trees_equal(a, b) ==
    /\ Len(trees[a].content) = Len(trees[b].content)
    /\ \A i \in 1..Len(trees[a].content) : trees[a].content[i] = trees[b].content[i]

\* Node.clone_tree(freeze): a deep copy under a fresh root pk. No row
\* outside the versioning models references the copy yet (pinned); made_for
\* is no column: it records the tracker whose operation allocated the tree.
clone_tree(src, freeze) ==
    [content  |-> [i \in 1..Len(trees[src].content) |-> trees[src].content[i]],
     frozen   |-> freeze,
     pinned   |-> FALSE,
     made_for |-> None]

\* The clone an operation of caller p makes.
CloneFor(p, src, freeze) ==
    [clone_tree(src, freeze) EXCEPT !.made_for = call[p].self]

\* --------------------------------------------------------- the two models
\* A VersionCommit row as objects.create() inserts it (lines 159-169).
\* created_with is no column: it records the content root_node had when the
\* row was created, for the properties that speak of it.
NewCommit(t, parent, root) ==
    [tracker |-> t, parent |-> parent, root_node |-> root,
     publish_at |-> now, approved_by |-> None, approved_at |-> None,
     created_with |-> trees[root].content]

\* Tracker and commit rows holding a PROTECT foreign key to Node tree r
\* (lines 18, 162).
VersioningReferrers(r) ==
    {<<"tracker", t>> : t \in {x \in DOMAIN trackers : trackers[x].working_copy = r}}
    \cup {<<"commit", c>> : c \in {x \in DOMAIN commits : commits[x].root_node = r}}

\* Every row holding a protected reference to Node tree r: those of the
\* versioning models and those of other models.
TreeReferrers(r) ==
    VersioningReferrers(r)
    \cup (IF r \in DOMAIN trees /\ trees[r].pinned THEN {<<"external", r>>} ELSE {})

\* Rows holding a PROTECT foreign key to VersionCommit c (lines 17, 161).
CommitReferrers(c) ==
    {<<"tracker", t>> : t \in {x \in DOMAIN trackers : trackers[x].head = c}}
    \cup {<<"commit", d>> : d \in {x \in DOMAIN commits : commits[x].parent = c}}

\* root_node.content.delete(): the outcome of asking the store to release r.
ContentDeleteResult(r) ==
    IF r \notin DOMAIN trees THEN "DoesNotExist"
    ELSE IF trees[r].frozen THEN "InvalidOperation"
    ELSE IF TreeReferrers(r) # {} THEN "ProtectedError"
    ELSE "ok"

RemoveKey(f, k) == [x \in DOMAIN f \ {k} |-> f[x]]

\* get_history(): commits from `head` following parent, newest first.
RECURSIVE HistoryFrom(_, _, _)
HistoryFrom(rows, c, fuel) ==
    IF c = None \/ c \notin DOMAIN rows \/ fuel = 0 THEN <<>>
    ELSE <<c>> \o HistoryFrom(rows, rows[c].parent, fuel - 1)

get_history(head) == HistoryFrom(commits, head, MaxCommits + 1)

\* get_history_list(): the same walk through an index of the rows whose
\* tracker is t; KeyError when the walk leaves the index.
KeyError == <<-1>>
RECURSIVE HistoryListFrom(_, _, _)
HistoryListFrom(c, index, fuel) ==
    IF c = None \/ fuel = 0 THEN <<>>
    ELSE IF c \notin index THEN KeyError
    ELSE LET rest == HistoryListFrom(commits[c].parent, index, fuel - 1)
         IN  IF rest = KeyError THEN rest ELSE <<c>> \o rest

get_history_list(t, head) ==
    HistoryListFrom(head, {c \in DOMAIN commits : commits[c].tracker = t},
                    MaxCommits + 1)

\* Faulty variant of has_changes: a tracker that never committed reports no
\* changes.
has_changes_NullHeadClean(head, working_copy) ==
    IF head = None THEN FALSE
    ELSE ~trees_equal(working_copy, commits[head].root_node)

\* has_changes(), on an instance whose fields are head and working_copy.
has_changes(head, working_copy) ==
    IF head = None THEN TRUE
    ELSE ~trees_equal(working_copy, commits[head].root_node)

\* ------------------------------------------------------------- callers
Idle ==
    [op |-> "idle", pc |-> "idle", self |-> None, head |-> None,
     working_copy |-> None, arg |-> None, arg_root |-> None, new |-> None,
     old |-> None, clone |-> None, hist |-> <<>>, todo |-> {}, cur |-> None,
     publish_at |-> None, user |-> None, row |-> <<>>, result |-> <<>>,
     admin |-> <<>>, err |-> "", pre |-> <<>>]

AllIdle == \A p \in Procs : call[p].op = "idle"

\* Trees a caller's operation has still to allocate.
PendingTrees(p) ==
    IF call[p].op \in {"commit", "revert_to", "reset"} /\ call[p].clone = None
       /\ call[p].pc \notin {"ret", "raised"}
    THEN 1 ELSE 0
PendingCommits(p) ==
    IF call[p].op \in {"commit", "revert_to"} /\ call[p].new = None
       /\ call[p].pc \notin {"ret", "raised"}
    THEN 1 ELSE 0

RECURSIVE PendingTreesIn(_)
PendingTreesIn(S) ==
    IF S = {} THEN 0
    ELSE LET x == CHOOSE y \in S : TRUE IN PendingTrees(x) + PendingTreesIn(S \ {x})

RECURSIVE PendingCommitsIn(_)
PendingCommitsIn(S) ==
    IF S = {} THEN 0
    ELSE LET x == CHOOSE y \in S : TRUE IN PendingCommits(x) + PendingCommitsIn(S \ {x})

\* Primary keys are bounded: an operation starts only when the keys it will
\* allocate are left.
RoomFor(nTrees, nCommits) ==
    /\ nextTree - 1 + PendingTreesIn(Procs) + nTrees <= MaxTrees
    /\ nextCommit - 1 + PendingCommitsIn(Procs) + nCommits <= MaxCommits

Set(p, r) == call' = [call EXCEPT ![p] = r]
Raise(p, e) == Set(p, [call[p] EXCEPT !.pc = "raised", !.err = e])

\* A caller loads tracker t from the store and enters operation op; pre
\* records the store as the call found it.
Load(p, t, op, first) ==
    [Idle EXCEPT !.op = op, !.pc = first, !.self = t,
                 !.head = trackers[t].head,
                 !.working_copy = trackers[t].working_copy,
                 !.pre = <<[trees |-> trees, commits |-> commits,
                            trackers |-> trackers, released |-> released]>>]

\* Faulty variant of SaveTracker: the update is not restricted to the
\* instance's row, so every tracker row gets the instance's head.
SaveTracker_AllRows(p) ==
    trackers' = [x \in DOMAIN trackers \cup {call[p].self} |->
                    IF x = call[p].self
                    THEN [head |-> call[p].head,
                          working_copy |-> call[p].working_copy]
                    ELSE [trackers[x] EXCEPT !.head = call[p].head]]

\* self.save(): write the instance's fields to its row.
SaveTracker(p) ==
    trackers' = [x \in DOMAIN trackers \cup {call[p].self} |->
                    IF x = call[p].self
                    THEN [head |-> call[p].head,
                          working_copy |-> call[p].working_copy]
                    ELSE trackers[x]]

\* ------------------------------------------------------------- commit()
BeginCommit(p, t) ==
    /\ call[p].op = "idle"
    /\ t \in DOMAIN trackers
    /\ RoomFor(1, 1)
    /\ Set(p, Load(p, t, "commit", "clone"))
    /\ UNCHANGED dbVars

\* commit(publish_at=at): the keyword arguments go to objects.create().
BeginCommitAt(p, t, at) ==
    /\ call[p].op = "idle"
    /\ t \in DOMAIN trackers
    /\ RoomFor(1, 1)
    /\ Set(p, [Load(p, t, "commit", "clone") EXCEPT !.publish_at = at])
    /\ UNCHANGED dbVars

\* Faulty variant of CommitClone: the working copy itself is frozen and
\* used as the snapshot.
CommitClone_FreezesInPlace(p) ==
    /\ call[p].op = "commit" /\ call[p].pc = "clone"
    /\ trees' = [trees EXCEPT ![call[p].working_copy].frozen = TRUE]
    /\ Set(p, [call[p] EXCEPT !.pc = "create", !.clone = call[p].working_copy])
    /\ UNCHANGED <<commits, trackers, nextTree, nextCommit, now, released>>

\* line 47: root_node=self.working_copy.clone_tree()
CommitClone(p) ==
    /\ call[p].op = "commit" /\ call[p].pc = "clone"
    /\ IF call[p].working_copy \notin DOMAIN trees
       THEN Raise(p, "DoesNotExist") /\ UNCHANGED dbVars
       ELSE /\ trees' = (nextTree :> CloneFor(p, call[p].working_copy, TRUE)) @@ trees
            /\ nextTree' = nextTree + 1
            /\ Set(p, [call[p] EXCEPT !.pc = "create", !.clone = nextTree])
            /\ UNCHANGED <<commits, trackers, nextCommit, now, released>>

\* VersionCommit.objects.create(parent=.., root_node=.., tracker=self) by
\* caller p, and the assignment of the new commit to self.head; the store
\* refuses a row whose foreign keys name no row.
CreateCommit(p, parent, root, nextpc) ==
    IF \/ call[p].self \notin DOMAIN trackers
       \/ root \notin DOMAIN trees
       \/ (parent # None /\ parent \notin DOMAIN commits)
    THEN Raise(p, "IntegrityError") /\ UNCHANGED dbVars
    ELSE /\ commits' = (nextCommit :>
                [NewCommit(call[p].self, parent, root) EXCEPT
                    !.publish_at = IF call[p].publish_at = None THEN @
                                   ELSE call[p].publish_at]) @@ commits
         /\ nextCommit' = nextCommit + 1
         /\ Set(p, [call[p] EXCEPT !.pc = nextpc, !.new = nextCommit,
                                   !.head = nextCommit])
         /\ UNCHANGED <<trees, trackers, nextTree, now, released>>

\* Faulty variants of CommitCreate: the new commit takes the previous head's
\* snapshot instead of the clone of the working copy; or it gets no parent.
CommitCreate_ReusesHeadSnapshot(p) ==
    /\ call[p].op = "commit" /\ call[p].pc = "create"
    /\ CreateCommit(p, call[p].head,
                    IF call[p].head # None THEN commits[call[p].head].root_node
                    ELSE call[p].clone, "save")

CommitCreate_NoParent(p) ==
    /\ call[p].op = "commit" /\ call[p].pc = "create"
    /\ CreateCommit(p, None, call[p].clone, "save")

\* lines 44-50: self.head = VersionCommit.objects.create(
\*     parent=self.head, root_node=<the clone>, tracker=self)
CommitCreate(p) ==
    /\ call[p].op = "commit" /\ call[p].pc = "create"
    /\ CreateCommit(p, call[p].head, call[p].clone, "save")

\* line 52: self.save(); line 54: return self.head
CommitSave(p) ==
    /\ call[p].op = "commit" /\ call[p].pc = "save"
    /\ SaveTracker(p)
    /\ Set(p, [call[p] EXCEPT !.pc = "ret"])
    /\ UNCHANGED <<trees, commits, nextTree, nextCommit, now, released>>

\* ----------------------------------------------------------- revert_to()
\* The caller passes a commit instance it loaded: its pk and its root_node.
BeginRevert(p, t, c) ==
    /\ call[p].op = "idle"
    /\ t \in DOMAIN trackers
    /\ c \in DOMAIN commits
    /\ RoomFor(1, 1)
    /\ Set(p, [Load(p, t, "revert_to", "create") EXCEPT
                  !.arg = c, !.arg_root = commits[c].root_node])
    /\ UNCHANGED dbVars

\* Faulty variant of RevertCreate: the new commit branches off the commit
\* reverted to instead of following the head.
RevertCreate_ParentIsTarget(p) ==
    /\ call[p].op = "revert_to" /\ call[p].pc = "create"
    /\ CreateCommit(p, call[p].arg, call[p].arg_root, "clone")

\* Faulty variant of RevertCreate: the new commit is filed under the tracker
\* of the commit reverted to instead of under self.
RevertCreate_TrackerOfTarget(p) ==
    /\ call[p].op = "revert_to" /\ call[p].pc = "create"
    /\ call[p].arg \in DOMAIN commits
    /\ commits' = (nextCommit :>
           [NewCommit(call[p].self, call[p].head, call[p].arg_root)
               EXCEPT !.tracker = commits[call[p].arg].tracker]) @@ commits
    /\ nextCommit' = nextCommit + 1
    /\ Set(p, [call[p] EXCEPT !.pc = "clone", !.new = nextCommit,
                              !.head = nextCommit])
    /\ UNCHANGED <<trees, trackers, nextTree, now, released>>

\* Faulty variant of RevertCreate: no commit is created; the commit reverted
\* to is moved to the front of the chain and becomes the head.
RevertCreate_RelinksTarget(p) ==
    /\ call[p].op = "revert_to" /\ call[p].pc = "create"
    /\ commits' = [commits EXCEPT ![call[p].arg].parent = call[p].head]
    /\ Set(p, [call[p] EXCEPT !.pc = "clone", !.new = call[p].arg,
                              !.head = call[p].arg])
    /\ UNCHANGED <<trees, trackers, nextTree, nextCommit, now, released>>

\* lines 57-63: self.head = VersionCommit.objects.create(
\*     parent=self.head, root_node=commit.root_node, tracker=self)
RevertCreate(p) ==
    /\ call[p].op = "revert_to" /\ call[p].pc = "create"
    /\ CreateCommit(p, call[p].head, call[p].arg_root, "clone")

\* Faulty variant of RevertClone: the new commit's snapshot is cloned too, so
\* the new head no longer shares the tree of the commit reverted to.
RevertClone_ClonesSnapshot(p) ==
    /\ call[p].op = "revert_to" /\ call[p].pc = "clone"
    /\ nextTree < MaxTrees
    /\ trees' = (nextTree :> CloneFor(p, call[p].arg_root, FALSE))
                @@ ((nextTree + 1) :> CloneFor(p, call[p].arg_root, TRUE)) @@ trees
    /\ nextTree' = nextTree + 2
    /\ commits' = [commits EXCEPT ![call[p].new].root_node = nextTree + 1]
    /\ Set(p, [call[p] EXCEPT !.pc = "save", !.clone = nextTree,
                              !.old = call[p].working_copy,
                              !.working_copy = nextTree])
    /\ UNCHANGED <<trackers, nextCommit, now, released>>

\* lines 65-66: old_working_copy = self.working_copy
\*              self.working_copy = commit.root_node.clone_tree(freeze=False)
RevertClone(p) ==
    /\ call[p].op = "revert_to" /\ call[p].pc = "clone"
    /\ IF call[p].arg_root \notin DOMAIN trees
       THEN Raise(p, "DoesNotExist") /\ UNCHANGED dbVars
       ELSE /\ trees' = (nextTree :> CloneFor(p, call[p].arg_root, FALSE)) @@ trees
            /\ nextTree' = nextTree + 1
            /\ Set(p, [call[p] EXCEPT !.pc = "save", !.clone = nextTree,
                                      !.old = call[p].working_copy,
                                      !.working_copy = nextTree])
            /\ UNCHANGED <<commits, trackers, nextCommit, now, released>>

\* Faulty variant of RevertSave: the tracker is not saved before the old
\* working copy is released.
RevertSave_DefersSave(p) ==
    /\ call[p].op = "revert_to" /\ call[p].pc = "save"
    /\ Set(p, [call[p] EXCEPT !.pc = "release"])
    /\ UNCHANGED dbVars

\* line 69: self.save()
RevertSave(p) ==
    /\ call[p].op = "revert_to" /\ call[p].pc = "save"
    /\ SaveTracker(p)
    /\ Set(p, [call[p] EXCEPT !.pc = "release"])
    /\ UNCHANGED <<trees, commits, nextTree, nextCommit, now, released>>

\* line 70: old_working_copy.content.delete(); line 72: return self.head
RevertRelease(p) ==
    /\ call[p].op = "revert_to" /\ call[p].pc = "release"
    /\ IF ContentDeleteResult(call[p].old) = "ok"
       THEN /\ trees' = RemoveKey(trees, call[p].old)
            /\ released' = [released EXCEPT ![call[p].old] = @ + 1]
            /\ Set(p, [call[p] EXCEPT !.pc = "ret"])
            /\ UNCHANGED <<commits, trackers, nextTree, nextCommit, now>>
       ELSE Raise(p, ContentDeleteResult(call[p].old)) /\ UNCHANGED dbVars

\* --------------------------------------------------------------- reset()
BeginReset(p, t) ==
    /\ call[p].op = "idle"
    /\ t \in DOMAIN trackers
    /\ RoomFor(1, 0)
    /\ Set(p, Load(p, t, "reset", "clone"))
    /\ UNCHANGED dbVars

\* Faulty variant of ResetClone: clone_tree() is called without
\* freeze=False, so the new working copy is frozen.
ResetClone_Freezes(p) ==
    /\ call[p].op = "reset" /\ call[p].pc = "clone"
    /\ call[p].head # None
    /\ trees' = (nextTree :>
           CloneFor(p, commits[call[p].head].root_node, TRUE)) @@ trees
    /\ nextTree' = nextTree + 1
    /\ Set(p, [call[p] EXCEPT !.pc = "save", !.clone = nextTree,
                              !.old = call[p].working_copy,
                              !.working_copy = nextTree])
    /\ UNCHANGED <<commits, trackers, nextCommit, now, released>>

\* Faulty variant of ResetClone: with a null head a tree is allocated for
\* the new working copy before the missing head is noticed.
ResetClone_AllocatesBeforeFailing(p) ==
    /\ call[p].op = "reset" /\ call[p].pc = "clone"
    /\ call[p].head = None
    /\ trees' = (nextTree :> CloneFor(p, call[p].working_copy, FALSE)) @@ trees
    /\ nextTree' = nextTree + 1
    /\ Set(p, [call[p] EXCEPT !.pc = "raised", !.err = "AttributeError",
                              !.old = call[p].working_copy,
                              !.working_copy = nextTree])
    /\ UNCHANGED <<commits, trackers, nextCommit, now, released>>

\* Faulty variant of ResetClone: the clone is taken of the working copy, not
\* of the head's snapshot, so the uncommitted edits survive.
ResetClone_ClonesWorkingCopy(p) ==
    /\ call[p].op = "reset" /\ call[p].pc = "clone"
    /\ call[p].head # None
    /\ trees' = (nextTree :> CloneFor(p, call[p].working_copy, FALSE)) @@ trees
    /\ nextTree' = nextTree + 1
    /\ Set(p, [call[p] EXCEPT !.pc = "save", !.clone = nextTree,
                              !.old = call[p].working_copy,
                              !.working_copy = nextTree])
    /\ UNCHANGED <<commits, trackers, nextCommit, now, released>>

\* lines 75-76: old_working_copy = self.working_copy
\*              self.working_copy = self.head.root_node.clone_tree(freeze=False)
ResetClone(p) ==
    /\ call[p].op = "reset" /\ call[p].pc = "clone"
    /\ IF call[p].head = None
       THEN Raise(p, "AttributeError") /\ UNCHANGED dbVars
       ELSE IF \/ call[p].head \notin DOMAIN commits
               \/ commits[call[p].head].root_node \notin DOMAIN trees
       THEN Raise(p, "DoesNotExist") /\ UNCHANGED dbVars
       ELSE /\ trees' = (nextTree :>
                  CloneFor(p, commits[call[p].head].root_node, FALSE)) @@ trees
            /\ nextTree' = nextTree + 1
            /\ Set(p, [call[p] EXCEPT !.pc = "save", !.clone = nextTree,
                                      !.old = call[p].working_copy,
                                      !.working_copy = nextTree])
            /\ UNCHANGED <<commits, trackers, nextCommit, now, released>>

\* line 77: self.save()
ResetSave(p) ==
    /\ call[p].op = "reset" /\ call[p].pc = "save"
    /\ SaveTracker(p)
    /\ Set(p, [call[p] EXCEPT !.pc = "release"])
    /\ UNCHANGED <<trees, commits, nextTree, nextCommit, now, released>>

\* Faulty variant of ResetRelease: the release is not wrapped in try/except,
\* so a refusal of the store reaches the caller.
ResetRelease_NoCatch(p) ==
    /\ call[p].op = "reset" /\ call[p].pc = "release"
    /\ IF ContentDeleteResult(call[p].old) = "ok"
       THEN /\ trees' = RemoveKey(trees, call[p].old)
            /\ released' = [released EXCEPT ![call[p].old] = @ + 1]
            /\ Set(p, [call[p] EXCEPT !.pc = "ret"])
            /\ UNCHANGED <<commits, trackers, nextTree, nextCommit, now>>
       ELSE Raise(p, ContentDeleteResult(call[p].old)) /\ UNCHANGED dbVars

\* lines 78-82: try: old_working_copy.content.delete()
\*              except ProtectedError: pass
ResetRelease(p) ==
    /\ call[p].op = "reset" /\ call[p].pc = "release"
    /\ IF ContentDeleteResult(call[p].old) = "ok"
       THEN /\ trees' = RemoveKey(trees, call[p].old)
            /\ released' = [released EXCEPT ![call[p].old] = @ + 1]
            /\ Set(p, [call[p] EXCEPT !.pc = "ret"])
            /\ UNCHANGED <<commits, trackers, nextTree, nextCommit, now>>
       ELSE IF ContentDeleteResult(call[p].old) = "ProtectedError"
       THEN Set(p, [call[p] EXCEPT !.pc = "ret"]) /\ UNCHANGED dbVars
       ELSE Raise(p, ContentDeleteResult(call[p].old)) /\ UNCHANGED dbVars

\* -------------------------------------------------------------- delete()
BeginDelete(p, t) ==
    /\ call[p].op = "idle"
    /\ t \in DOMAIN trackers
    /\ Set(p, Load(p, t, "delete", "list"))
    /\ UNCHANGED dbVars

\* line 125: commits = self.get_history_list(); each entry carries the
\* commit's pk and its select_related root_node.
DeleteList(p) ==
    /\ call[p].op = "delete" /\ call[p].pc = "list"
    /\ LET h == get_history_list(call[p].self, call[p].head) IN
       IF h = KeyError
       THEN Raise(p, "KeyError")
       ELSE Set(p, [call[p] EXCEPT !.pc = "sever",
                       !.hist = [i \in 1..Len(h) |->
                                   [id |-> h[i], root_node |-> commits[h[i]].root_node]]])
    /\ UNCHANGED dbVars

\* Faulty variant of DeleteSever: trees_to_delete starts empty, so the
\* working copy is collected only if a commit happens to reference it.
DeleteSever_ForgetsWorkingCopy(p) ==
    /\ call[p].op = "delete" /\ call[p].pc = "sever"
    /\ call[p].hist # <<>>
    /\ trackers' = [x \in DOMAIN trackers \cup {call[p].self} |->
                      IF x = call[p].self
                      THEN [head |-> None, working_copy |-> call[p].working_copy]
                      ELSE trackers[x]]
    /\ Set(p, [call[p] EXCEPT !.head = None, !.todo = {}, !.pc = "commits"])
    /\ UNCHANGED <<trees, commits, nextTree, nextCommit, now, released>>

\* lines 127-128: self.head = None; self.save()
\* line 132: trees_to_delete = set([self.working_copy])
DeleteSever(p) ==
    /\ call[p].op = "delete" /\ call[p].pc = "sever"
    /\ trackers' = [x \in DOMAIN trackers \cup {call[p].self} |->
                      IF x = call[p].self
                      THEN [head |-> None, working_copy |-> call[p].working_copy]
                      ELSE trackers[x]]
    /\ Set(p, [call[p] EXCEPT !.head = None, !.todo = {call[p].working_copy},
                  !.pc = IF call[p].hist = <<>> THEN "tracker" ELSE "commits"])
    /\ UNCHANGED <<trees, commits, nextTree, nextCommit, now, released>>

\* lines 133-135, one turn of the loop:
\*     trees_to_delete.add(commit.root_node); commit.delete()
DeleteCommit(p) ==
    /\ call[p].op = "delete" /\ call[p].pc = "commits"
    /\ LET c == Head(call[p].hist) IN
       IF c.id \in DOMAIN commits /\ CommitReferrers(c.id) # {}
       THEN Raise(p, "ProtectedError") /\ UNCHANGED dbVars
       ELSE /\ commits' = RemoveKey(commits, c.id)
            /\ Set(p, [call[p] EXCEPT
                   !.todo = @ \cup {c.root_node},
                   !.hist = Tail(@),
                   !.pc = IF Tail(call[p].hist) = <<>> THEN "tracker" ELSE "commits"])
            /\ UNCHANGED <<trees, trackers, nextTree, nextCommit, now, released>>

\* line 137: super(VersionTracker, self).delete(). VersionCommit.tracker
\* (line 160) cascades; head and parent (lines 17, 161) protect.
DeleteTracker(p) ==
    /\ call[p].op = "delete" /\ call[p].pc = "tracker"
    /\ LET cascade == {c \in DOMAIN commits : commits[c].tracker = call[p].self} IN
       IF \E c \in cascade : CommitReferrers(c) # {}
       THEN Raise(p, "ProtectedError") /\ UNCHANGED dbVars
       ELSE /\ trackers' = RemoveKey(trackers, call[p].self)
            /\ commits' = [c \in DOMAIN commits \ cascade |-> commits[c]]
            /\ Set(p, [call[p] EXCEPT !.pc = "unfreeze"])
            /\ UNCHANGED <<trees, nextTree, nextCommit, now, released>>

\* lines 139-140: the next root_node of trees_to_delete (a set: any order);
\*     Node.get_tree(root_node).update(is_frozen=False)
DeleteUnfreeze(p) ==
    /\ call[p].op = "delete" /\ call[p].pc = "unfreeze"
    /\ \E r \in call[p].todo :
          /\ trees' = [x \in DOMAIN trees |->
                         IF x = r THEN [trees[x] EXCEPT !.frozen = FALSE]
                         ELSE trees[x]]
          /\ Set(p, [call[p] EXCEPT !.pc = "release", !.cur = r])
    /\ UNCHANGED <<commits, trackers, nextTree, nextCommit, now, released>>

\* line 141: root_node.content.delete()
DeleteRelease(p) ==
    /\ call[p].op = "delete" /\ call[p].pc = "release"
    /\ IF ContentDeleteResult(call[p].cur) = "ok"
       THEN /\ trees' = RemoveKey(trees, call[p].cur)
            /\ released' = [released EXCEPT ![call[p].cur] = @ + 1]
            /\ Set(p, [call[p] EXCEPT
                   !.todo = @ \ {call[p].cur}, !.cur = None,
                   !.pc = IF call[p].todo \ {call[p].cur} = {}
                          THEN "ret" ELSE "unfreeze"])
            /\ UNCHANGED <<commits, trackers, nextTree, nextCommit, now>>
       ELSE Raise(p, ContentDeleteResult(call[p].cur)) /\ UNCHANGED dbVars

\* ------------------------------------------- VersionCommit's properties
\* lines 171-173: publish_at <= timezone.now()
is_published(row) == row.publish_at <= now

\* lines 175-177: bool(approved_by and approved_at)
is_approved(row) == row.approved_by # None /\ row.approved_at # None

\* approve(user) on the commit instance a caller loaded.
BeginApprove(p, c, u) ==
    /\ call[p].op = "idle"
    /\ c \in DOMAIN commits
    /\ Set(p, [Idle EXCEPT !.op = "approve", !.pc = "save", !.arg = c,
                  !.self = commits[c].tracker, !.user = u, !.row = <<commits[c]>>,
                  !.pre = <<[trees |-> trees, commits |-> commits,
                             trackers |-> trackers, released |-> released]>>])
    /\ UNCHANGED dbVars

\* Faulty variant of ApproveSave: a commit that already has an approver
\* keeps it, only the timestamp is renewed.
ApproveSave_KeepsFirstApprover(p) ==
    /\ call[p].op = "approve" /\ call[p].pc = "save"
    /\ commits' = (call[p].arg :>
           [call[p].row[1] EXCEPT
               !.approved_at = now,
               !.approved_by = IF @ = None THEN call[p].user ELSE @]) @@ commits
    /\ Set(p, [call[p] EXCEPT !.pc = "ret"])
    /\ UNCHANGED <<trees, trackers, nextTree, nextCommit, now, released>>

\* lines 180-182: self.approved_at = timezone.now()
\*                self.approved_by = user; self.save()
ApproveSave(p) ==
    /\ call[p].op = "approve" /\ call[p].pc = "save"
    /\ commits' = (call[p].arg :>
           [call[p].row[1] EXCEPT !.approved_at = now,
                                  !.approved_by = call[p].user]) @@ commits
    /\ Set(p, [call[p] EXCEPT !.pc = "ret"])
    /\ UNCHANGED <<trees, trackers, nextTree, nextCommit, now, released>>

\* --------------------------------------------------- get_published_node()
\* lines 85-88: the snapshot of the first commit of the walk that is
\* published, None when the walk ends.
RECURSIVE PublishedIn(_)
PublishedIn(hist) ==
    IF hist = <<>> THEN None
    ELSE IF is_published(commits[Head(hist)]) THEN commits[Head(hist)].root_node
    ELSE PublishedIn(Tail(hist))

\* Faulty variant of get_published_node: the head's snapshot whatever its
\* publish_at.
get_published_node_IgnoresSchedule(head) ==
    IF head = None THEN None ELSE commits[head].root_node

get_published_node(head) == PublishedIn(get_history(head))

\* lines 153-156: ReviewedVersionTracker's walk also asks is_approved.
RECURSIVE ReviewedPublishedIn(_)
ReviewedPublishedIn(hist) ==
    IF hist = <<>> THEN None
    ELSE IF is_published(commits[Head(hist)]) /\ is_approved(commits[Head(hist)])
         THEN commits[Head(hist)].root_node
    ELSE ReviewedPublishedIn(Tail(hist))

reviewed_get_published_node(head) == ReviewedPublishedIn(get_history(head))

BeginGetPublishedNode(p, t) ==
    /\ call[p].op = "idle"
    /\ t \in DOMAIN trackers
    /\ Set(p, Load(p, t, "get_published_node", "eval"))
    /\ UNCHANGED dbVars

GetPublishedNodeEval(p) ==
    /\ call[p].op = "get_published_node" /\ call[p].pc = "eval"
    /\ Set(p, [call[p] EXCEPT !.pc = "ret",
                  !.result = <<get_published_node(call[p].head)>>])
    /\ UNCHANGED dbVars

BeginReviewedGetPublishedNode(p, t) ==
    /\ call[p].op = "idle"
    /\ t \in DOMAIN trackers
    /\ Set(p, Load(p, t, "reviewed_get_published_node", "eval"))
    /\ UNCHANGED dbVars

ReviewedGetPublishedNodeEval(p) ==
    /\ call[p].op = "reviewed_get_published_node" /\ call[p].pc = "eval"
    /\ Set(p, [call[p] EXCEPT !.pc = "ret",
                  !.result = <<reviewed_get_published_node(call[p].head)>>])
    /\ UNCHANGED dbVars

\* timezone.now() moves on.
Tick ==
    /\ now < MaxNow
    /\ now' = now + 1
    /\ UNCHANGED <<trees, commits, trackers, nextTree, nextCommit, released, call>>

\* --------------------------------------------------------- has_changes()
BeginHasChanges(p, t) ==
    /\ call[p].op = "idle"
    /\ t \in DOMAIN trackers
    /\ Set(p, Load(p, t, "has_changes", "eval"))
    /\ UNCHANGED dbVars

\* lines 117-122: the comparison reads the head's commit and both trees.
HasChangesEval(p) ==
    /\ call[p].op = "has_changes" /\ call[p].pc = "eval"
    /\ IF /\ call[p].head # None
          /\ \/ call[p].head \notin DOMAIN commits
             \/ commits[call[p].head].root_node \notin DOMAIN trees
             \/ call[p].working_copy \notin DOMAIN trees
       THEN Raise(p, "DoesNotExist")
       ELSE Set(p, [call[p] EXCEPT !.pc = "ret",
               !.result = <<has_changes(call[p].head, call[p].working_copy)>>])
    /\ UNCHANGED dbVars

\* ------------------------------------------------- edits and returning
\* An editor changes the working copy of tracker t in place.
EditedValues(v) ==
    {w \in TreeValues :
        \/ Len(w) = Len(v) + 1 /\ \A i \in 1..Len(v) : w[i] = v[i]
        \/ Len(w) = Len(v) - 1 /\ \A i \in 1..Len(w) : w[i] = v[i]
        \/ Len(w) = Len(v) /\ Cardinality({i \in 1..Len(v) : w[i] # v[i]}) = 1}

Edit(t) ==
    /\ t \in DOMAIN trackers
    /\ trackers[t].working_copy \in DOMAIN trees
    /\ ~trees[trackers[t].working_copy].frozen
    /\ \E w \in EditedValues(trees[trackers[t].working_copy].content) :
          trees' = [trees EXCEPT ![trackers[t].working_copy].content = w]
    /\ UNCHANGED <<commits, trackers, nextTree, nextCommit, now, released, call>>

\* A row of another model takes a protected reference to a node of the
\* working copy of tracker t, or gives it up.
Pin(t) ==
    /\ t \in DOMAIN trackers
    /\ trackers[t].working_copy \in DOMAIN trees
    /\ ~trees[trackers[t].working_copy].pinned
    /\ trees' = [trees EXCEPT ![trackers[t].working_copy].pinned = TRUE]
    /\ UNCHANGED <<commits, trackers, nextTree, nextCommit, now, released, call>>

Unpin(r) ==
    /\ r \in DOMAIN trees
    /\ trees[r].pinned
    /\ trees' = [trees EXCEPT ![r].pinned = FALSE]
    /\ UNCHANGED <<commits, trackers, nextTree, nextCommit, now, released, call>>

\* ------------------------------------------- WidgyPageAdmin.save_model()
\* (widgy/contrib/widgy_mezzanine/admin.py, lines 92-123). The request's
\* frame is call[p].admin while the tracker and commit methods it calls run
\* as the caller's operation. commits0, head0, dirty0, created, approved and
\* published_here are no fields of the request: they record what the store
\* held when the request began and what the request did.
Buttons == {"_save_and_commit", "_save_and_approve", "_continue"}
Statuses == {"draft", "published"}

\* lines 95-113: which button was posted, and the permission checks.
SaveModelBranch(button, review, can_add, can_change) ==
    IF button = "_save_and_commit"
    THEN IF ~can_add THEN "super" ELSE "check"
    ELSE IF button = "_save_and_approve" /\ review
    THEN IF ~can_add \/ ~can_change THEN "super" ELSE "check"
    ELSE "super"

\* The request's frame, back in save_model's own code at position pc.
InSaveModel(frame, pc) ==
    [Idle EXCEPT !.op = "save_model", !.pc = pc, !.self = frame.tracker,
                 !.admin = <<frame>>]

BeginSaveModel(p, t, button, review, can_add, can_change, u, status) ==
    /\ call[p].op = "idle"
    /\ t \in DOMAIN trackers
    /\ RoomFor(1, 1)
    /\ Set(p, InSaveModel(
           [tracker |-> t, button |-> button, review |-> review,
            can_add |-> can_add, can_change |-> can_change, user |-> u,
            status |-> status, published_here |-> FALSE,
            commits0 |-> DOMAIN commits, head0 |-> trackers[t].head,
            dirty0 |-> \/ trackers[t].head = None
                       \/ trees[trackers[t].working_copy].content
                          # trees[commits[trackers[t].head].root_node].content,
            created |-> None, approved |-> None],
           SaveModelBranch(button, review, can_add, can_change)))
    /\ UNCHANGED dbVars

\* lines 99, 114: obj.root_node.has_changes()
SaveModelHasChanges(p) ==
    /\ call[p].op = "save_model" /\ call[p].pc = "check"
    /\ Set(p, [Load(p, call[p].self, "has_changes", "eval") EXCEPT
                  !.admin = call[p].admin])
    /\ UNCHANGED dbVars

\* Faulty variant of SaveModelAfterCheck: the commit is made whatever
\* has_changes() returned.
SaveModelAfterCheck_AlwaysCommits(p) ==
    /\ call[p].op = "has_changes" /\ call[p].pc = "ret"
    /\ call[p].admin # <<>>
    /\ Set(p, [Load(p, call[p].self, "commit", "clone") EXCEPT
                  !.admin = call[p].admin])
    /\ UNCHANGED dbVars

\* lines 99-102, 114-115: if has_changes() returned true,
\* obj.root_node.commit(user) is called; else nothing (but a warning).
SaveModelAfterCheck(p) ==
    /\ call[p].op = "has_changes" /\ call[p].pc = "ret"
    /\ call[p].admin # <<>>
    /\ IF call[p].result = <<TRUE>>
       THEN Set(p, [Load(p, call[p].self, "commit", "clone") EXCEPT
                       !.admin = call[p].admin])
       ELSE Set(p, InSaveModel(call[p].admin[1], "after"))
    /\ UNCHANGED dbVars

\* commit() has returned into save_model.
SaveModelAfterCommit(p) ==
    /\ call[p].op = "commit" /\ call[p].pc = "ret"
    /\ call[p].admin # <<>>
    /\ Set(p, InSaveModel([call[p].admin[1] EXCEPT !.created = call[p].new],
                          "after"))
    /\ UNCHANGED dbVars

\* The commit instance approve(u) is called on, as a caller's operation.
LoadCommit(c, u) ==
    [Idle EXCEPT !.op = "approve", !.pc = "save", !.arg = c,
                 !.self = commits[c].tracker, !.user = u, !.row = <<commits[c]>>,
                 !.pre = <<[trees |-> trees, commits |-> commits,
                            trackers |-> trackers, released |-> released]>>]

\* lines 104-105: without review queue the page becomes published;
\* line 119: obj.root_node.head.reviewedversioncommit.approve(request.user)
SaveModelAfter(p) ==
    /\ call[p].op = "save_model" /\ call[p].pc = "after"
    /\ LET a  == call[p].admin[1]
           hd == trackers[a.tracker].head
       IN  IF a.button = "_save_and_commit"
           THEN Set(p, InSaveModel(
                    IF a.review THEN a
                    ELSE [a EXCEPT !.status = "published",
                                   !.published_here = TRUE], "super"))
           ELSE IF hd = None
           THEN Raise(p, "AttributeError")
           ELSE Set(p, [LoadCommit(hd, a.user) EXCEPT
                           !.admin = <<[a EXCEPT !.approved = hd]>>])
    /\ UNCHANGED dbVars

\* line 120: the approved commit is saved once more, with the values it
\* was just saved with; line 121: obj.status = CONTENT_STATUS_PUBLISHED
SaveModelAfterApprove(p) ==
    /\ call[p].op = "approve" /\ call[p].pc = "ret"
    /\ call[p].admin # <<>>
    /\ Set(p, InSaveModel([call[p].admin[1] EXCEPT !.status = "published",
                                                   !.published_here = TRUE],
                          "super"))
    /\ UNCHANGED dbVars

\* lines 122-123: the page is saved by PageAdmin.save_model.
SaveModelSuper(p) ==
    /\ call[p].op = "save_model" /\ call[p].pc = "super"
    /\ Set(p, [call[p] EXCEPT !.pc = "ret"])
    /\ UNCHANGED dbVars

\* The caller drops the instance; its next operation loads a fresh one.
Return(p) ==
    /\ call[p].pc \in {"ret", "raised"}
    /\ call[p].admin = <<>> \/ call[p].op = "save_model" \/ call[p].pc = "raised"
    /\ Set(p, Idle)
    /\ UNCHANGED dbVars

\* ---------------------------------------------------------------- Init
Init ==
    /\ trees = [r \in Trackers |-> [content |-> <<>>, frozen |-> FALSE,
                                     pinned |-> FALSE, made_for |-> r]]
    /\ commits = <<>>
    /\ trackers = [t \in Trackers |-> [head |-> None, working_copy |-> t]]
    /\ nextTree = Cardinality(Trackers) + 1
    /\ nextCommit = 1
    /\ now = 1
    /\ released = [r \in TreeIds |-> 0]
    /\ call = [p \in Procs |-> Idle]

\* One ORM statement of the operation a caller is in.
Step(p) ==
    \/ CommitClone(p) \/ CommitCreate(p) \/ CommitSave(p)
    \/ RevertCreate(p) \/ RevertClone(p) \/ RevertSave(p) \/ RevertRelease(p)
    \/ ResetClone(p) \/ ResetSave(p) \/ ResetRelease(p)
    \/ DeleteList(p) \/ DeleteSever(p) \/ DeleteCommit(p) \/ DeleteTracker(p)
    \/ DeleteUnfreeze(p) \/ DeleteRelease(p)
    \/ HasChangesEval(p)
    \/ Return(p)

\* A caller starts an operation on a tracker.
Begin(p) ==
    \/ \E t \in Trackers : BeginCommit(p, t)
    \/ \E t \in Trackers, c \in CommitIds : BeginRevert(p, t, c)
    \/ \E t \in Trackers : BeginReset(p, t)
    \/ \E t \in Trackers : BeginDelete(p, t)
    \/ \E t \in Trackers : BeginHasChanges(p, t)

\* Operations run one at a time, as the code assumes (no locking of its own).
Next ==
    \/ AllIdle /\ Begin(Caller)
    \/ \E t \in Trackers : AllIdle /\ Edit(t)
    \/ Step(Caller)

Spec == Init /\ [][Next]_vars

\* Two callers whose commit() and revert_to() calls interleave statement by
\* statement: the code opens no transaction and takes no lock. Edits happen
\* between calls.
StepConc(p) ==
    \/ CommitClone(p) \/ CommitCreate(p) \/ CommitSave(p)
    \/ RevertCreate(p) \/ RevertClone(p) \/ RevertSave(p) \/ RevertRelease(p)
    \/ Return(p)

NextConc ==
    \/ \E p \in Procs, t \in Trackers : BeginCommit(p, t)
    \/ \E p \in Procs, t \in Trackers, c \in CommitIds : BeginRevert(p, t, c)
    \/ \E t \in Trackers : AllIdle /\ Edit(t)
    \/ \E p \in Procs : StepConc(p)

SpecConc == Init /\ [][NextConc]_vars

\* Two trackers committing at the same time: caller p works on tracker p,
\* the statements of the two commit() calls interleave freely, and a
\* tracker's working copy is edited while no call on it is running.
NextTwo ==
    \/ \E p \in Procs : BeginCommit(p, p)
    \/ \E p \in Procs : CommitClone(p) \/ CommitCreate(p) \/ CommitSave(p)
    \/ \E p \in Procs : Return(p)
    \/ \E t \in Trackers : call[t].op = "idle" /\ Edit(t)

SpecTwo == Init /\ [][NextTwo]_vars

\* Publishing, operations one at a time on one tracker: commits scheduled
\* for now or for later, approvals, the passing of time, and the two
\* get_published_node() of lines 84-88 and 152-156.
PublishTimes == {None} \cup {now + 1}
Reviewed == {1}         \* the tracker whose commits are published and reviewed
Reviewer == 1           \* the user who approves what is published

NextPublish ==
    \/ \E t \in Reviewed, at \in PublishTimes : AllIdle /\ BeginCommitAt(Caller, t, at)
    \/ \E c \in CommitIds : AllIdle /\ BeginApprove(Caller, c, Reviewer)
    \/ \E t \in Reviewed : AllIdle /\ BeginGetPublishedNode(Caller, t)
    \/ \E t \in Reviewed : AllIdle /\ BeginReviewedGetPublishedNode(Caller, t)
    \/ AllIdle /\ Tick
    \/ CommitClone(Caller) \/ CommitCreate(Caller) \/ CommitSave(Caller)
    \/ ApproveSave(Caller)
    \/ GetPublishedNodeEval(Caller) \/ ReviewedGetPublishedNodeEval(Caller)
    \/ Return(Caller)

SpecPublish == Init /\ [][NextPublish]_vars

\* Review, operations one at a time on one tracker: commits, approvals by
\* either user, and the passing of time.
NextReview ==
    \/ \E t \in Reviewed : AllIdle /\ BeginCommit(Caller, t)
    \/ \E c \in CommitIds, u \in Users : AllIdle /\ BeginApprove(Caller, c, u)
    \/ AllIdle /\ Tick
    \/ CommitClone(Caller) \/ CommitCreate(Caller) \/ CommitSave(Caller)
    \/ ApproveSave(Caller)
    \/ Return(Caller)

SpecReview == Init /\ [][NextReview]_vars

\* The admin: one page is edited and saved through save_model, one request
\* at a time.
NextAdmin ==
    \/ \E t \in Reviewed, button \in Buttons, review, can_add, can_change \in BOOLEAN,
          status \in Statuses :
          AllIdle /\ BeginSaveModel(Caller, t, button, review, can_add,
                                    can_change, Reviewer, status)
    \/ \E t \in Reviewed : AllIdle /\ Edit(t)
    \/ SaveModelHasChanges(Caller) \/ HasChangesEval(Caller)
    \/ SaveModelAfterCheck(Caller)
    \/ CommitClone(Caller) \/ CommitCreate(Caller) \/ CommitSave(Caller)
    \/ SaveModelAfterCommit(Caller) \/ SaveModelAfter(Caller)
    \/ ApproveSave(Caller) \/ SaveModelAfterApprove(Caller)
    \/ SaveModelSuper(Caller)
    \/ Return(Caller)

SpecAdmin == Init /\ [][NextAdmin]_vars

\* Operations one at a time, in a store where rows of other models reference
\* nodes of working copies.
StepExt(p) ==
    \/ CommitClone(p) \/ CommitCreate(p) \/ CommitSave(p)
    \/ RevertCreate(p) \/ RevertClone(p) \/ RevertSave(p) \/ RevertRelease(p)
    \/ ResetClone(p) \/ ResetSave(p) \/ ResetRelease(p)
    \/ DeleteList(p) \/ DeleteSever(p) \/ DeleteCommit(p) \/ DeleteTracker(p)
    \/ DeleteUnfreeze(p) \/ DeleteRelease(p)
    \/ Return(p)

NextExt ==
    \/ \E t \in Trackers : AllIdle /\ BeginCommit(Caller, t)
    \/ \E t \in Trackers, c \in CommitIds : AllIdle /\ BeginRevert(Caller, t, c)
    \/ \E t \in Trackers : AllIdle /\ BeginReset(Caller, t)
    \/ \E t \in Trackers : AllIdle /\ BeginDelete(Caller, t)
    \/ \E t \in Trackers : AllIdle /\ Pin(t)
    \/ \E r \in TreeIds : AllIdle /\ Unpin(r)
    \/ StepExt(Caller)

SpecExt == Init /\ [][NextExt]_vars

\* ============================================================== claims
Pre(p) == call[p].pre[1]
Returned(p, op) == call[p].op = op /\ call[p].pc = "ret"
Content(ts, r) == ts[r].content

\* C1: for every tracker, in every state reached right after commit()
\* returned (no edit since), has_changes() on that tracker is false.
C1_NoChangesAfterCommit ==
    \A p \in Procs :
        Returned(p, "commit") =>
            /\ ~has_changes(call[p].head, call[p].working_copy)
            /\ ~has_changes(trackers[call[p].self].head,
                            trackers[call[p].self].working_copy)

\* C1 witness: commit() has returned on a tracker that had a head and a
\* working copy differing from the head's snapshot.
C1_Witness ==
    \E p \in Procs :
        /\ Returned(p, "commit")
        /\ Pre(p).trackers[call[p].self].head # None
        /\ Content(Pre(p).trees, Pre(p).trackers[call[p].self].working_copy)
           # Content(Pre(p).trees,
                     Pre(p).commits[Pre(p).trackers[call[p].self].head].root_node)

\* C2: when commit() or revert_to() has returned, exactly one commit row was
\* added, its parent is the head from before the call, it is the new head,
\* every earlier row is unchanged, get_history() is the new commit followed
\* by the history from before the call, and get_history_list() holds the
\* tracker's commits newest first (decreasing order of creation).
C2_AppendOnly ==
    \A p \in Procs :
        (Returned(p, "commit") \/ Returned(p, "revert_to")) =>
            LET t   == call[p].self
                new == call[p].new
                old == Pre(p).trackers[t].head
                h   == get_history_list(t, trackers[t].head)
            IN  /\ new \notin DOMAIN Pre(p).commits
                /\ DOMAIN commits = DOMAIN Pre(p).commits \cup {new}
                /\ \A c \in DOMAIN Pre(p).commits : commits[c] = Pre(p).commits[c]
                /\ commits[new].parent = old
                /\ trackers[t].head = new
                /\ get_history(trackers[t].head)
                   = <<new>> \o HistoryFrom(Pre(p).commits, old, MaxCommits + 1)
                /\ h = get_history(trackers[t].head)
                /\ \A i, j \in 1..Len(h) : i < j => h[i] > h[j]
                /\ {h[i] : i \in 1..Len(h)}
                   = {c \in DOMAIN commits : commits[c].tracker = t}

\* C2 witness: revert_to() has returned with a history of three commits.
C2_Witness ==
    \E p \in Procs :
        /\ Returned(p, "revert_to")
        /\ Len(get_history(trackers[call[p].self].head)) = 3

\* C3 (state part): when commit() has returned, the tracker's working copy
\* is the same tree as before, with the same content and still unfrozen; the
\* new commit's snapshot is another tree, structurally equal to it.
C3_AtReturn ==
    \A p \in Procs :
        Returned(p, "commit") =>
            LET t  == call[p].self
                wc == trackers[t].working_copy
            IN  /\ wc = Pre(p).trackers[t].working_copy
                /\ wc \in DOMAIN trees
                /\ trees[wc] = Pre(p).trees[wc]
                /\ ~trees[wc].frozen
                /\ commits[call[p].new].root_node # wc
                /\ commits[call[p].new].root_node \notin DOMAIN Pre(p).trees
                /\ trees_equal(wc, commits[call[p].new].root_node)

\* C3 (step part): an edit of a working copy changes no commit's snapshot.
C3_EditFrame ==
    \A t \in Trackers :
        Edit(t) => \A c \in DOMAIN commits :
                      trees'[commits[c].root_node] = trees[commits[c].root_node]

\* C3: commit() leaves the working copy untouched and snapshots it into a
\* distinct, structurally equal tree that later edits do not reach.
C3_WorkingCopyUntouched == []C3_AtReturn /\ [][C3_EditFrame]_vars

\* C3 witness: commit() has returned on a tracker with a non-empty working
\* copy and an earlier commit.
C3_Witness ==
    \E p \in Procs :
        /\ Returned(p, "commit")
        /\ commits[call[p].new].parent # None
        /\ trees[trackers[call[p].self].working_copy].content # <<>>

\* C4: when revert_to(C) has returned, the new head's snapshot is the very
\* tree of C's snapshot, and the working copy is a fresh unfrozen tree,
\* distinct from that snapshot and structurally equal to it.
C4_RevertSharesSnapshot ==
    \A p \in Procs :
        Returned(p, "revert_to") =>
            LET t  == call[p].self
                wc == trackers[t].working_copy
                hd == trackers[t].head
            IN  /\ hd = call[p].new
                /\ commits[hd].root_node = Pre(p).commits[call[p].arg].root_node
                /\ wc # commits[hd].root_node
                /\ wc \notin DOMAIN Pre(p).trees
                /\ wc \in DOMAIN trees
                /\ ~trees[wc].frozen
                /\ trees_equal(wc, commits[hd].root_node)

\* C4 witness: revert_to(C) has returned where C was not the head and its
\* snapshot differed from the head's.
C4_Witness ==
    \E p \in Procs :
        /\ Returned(p, "revert_to")
        /\ Pre(p).trackers[call[p].self].head \notin {None, call[p].arg}
        /\ Pre(p).commits[call[p].arg].root_node
           # Pre(p).commits[Pre(p).trackers[call[p].self].head].root_node

\* The trees delete() had to release when the call began: the working copy
\* and the snapshot of every commit of the history.
OwnedBefore(p) ==
    LET t == call[p].self
        h == HistoryFrom(Pre(p).commits, Pre(p).trackers[t].head, MaxCommits + 1)
    IN  {Pre(p).trackers[t].working_copy}
        \cup {Pre(p).commits[h[i]].root_node : i \in 1..Len(h)}

SharesSnapshots(p) ==
    LET h == HistoryFrom(Pre(p).commits, Pre(p).trackers[call[p].self].head,
                         MaxCommits + 1)
    IN  \E i, j \in 1..Len(h) :
           i # j /\ Pre(p).commits[h[i]].root_node = Pre(p).commits[h[j]].root_node

\* C5: when delete() has ended on a tracker whose history holds commits that
\* share a snapshot tree, every distinct tree of the working copy and the
\* history was released exactly once by the call, and no other tree was.
C5_DeleteReleasesEachTreeOnce ==
    \A p \in Procs :
        (call[p].op = "delete" /\ call[p].pc \in {"ret", "raised"}
            /\ SharesSnapshots(p)) =>
            \A r \in TreeIds :
                released[r] - Pre(p).released[r]
                    = IF r \in OwnedBefore(p) THEN 1 ELSE 0

\* C6: in every step of delete() the record the step removes is named by no
\* protected reference: the head is null in the store before a commit is
\* deleted, a commit is deleted only when no tracker's head and no commit's
\* parent names it, the tracker row is gone before a tree is released, and a
\* tree is released only when no tracker and no commit references it; so
\* delete() never ends in ProtectedError.
C6_DeleteOrderRespectsProtect ==
    \A p \in Procs :
        call[p].op = "delete" =>
            /\ call[p].pc \in {"commits", "tracker"} =>
                   trackers[call[p].self].head = None
            /\ call[p].pc = "commits" =>
                   CommitReferrers(Head(call[p].hist).id) = {}
            /\ call[p].pc = "tracker" =>
                   \A c \in DOMAIN commits :
                       commits[c].tracker = call[p].self => CommitReferrers(c) = {}
            /\ call[p].pc \in {"unfreeze", "release"} =>
                   call[p].self \notin DOMAIN trackers
            /\ call[p].pc = "release" => TreeReferrers(call[p].cur) = {}
            /\ call[p].pc = "raised" => call[p].err # "ProtectedError"

\* C7: in every state, the snapshot tree of every existing commit exists, is
\* frozen and has the content it had when the commit was created.
C7_SnapshotsFrozen ==
    \A c \in DOMAIN commits :
        /\ commits[c].root_node \in DOMAIN trees
        /\ trees[commits[c].root_node].frozen
        /\ trees[commits[c].root_node].content = commits[c].created_with

\* C8: in every state, the working copy of every tracker row is an existing,
\* unfrozen tree.
C8_WorkingCopyUnfrozen ==
    \A t \in DOMAIN trackers :
        /\ trackers[t].working_copy \in DOMAIN trees
        /\ ~trees[trackers[t].working_copy].frozen

\* C8 witness: reset() has returned on a tracker that committed before, so
\* its working copy is a clone that reset() installed.
C8_Witness ==
    \E p \in Procs :
        /\ Returned(p, "reset")
        /\ trackers[call[p].self].working_copy = call[p].clone
        /\ trackers[call[p].self].head # None

C10_NoPartialCommit ==
    \A c \in DOMAIN commits :
        commits[c].tracker \in DOMAIN trackers =>
            \E i \in 1..Len(get_history(trackers[commits[c].tracker].head)) :
                get_history(trackers[commits[c].tracker].head)[i] = c

\* C10 (second part): when two callers that found the same head have both
\* returned from commit() or revert_to() on the same tracker, the store is
\* as after the two calls run one after the other: one new commit is the
\* parent of the other, which is the head.
C10_SerialResult ==
    \A p, q \in Procs :
        (/\ p # q
         /\ call[p].pc = "ret" /\ call[q].pc = "ret"
         /\ call[p].self = call[q].self
         /\ Pre(p).trackers[call[p].self].head = Pre(q).trackers[call[q].self].head) =>
            \/ /\ commits[call[p].new].parent = call[q].new
               /\ trackers[call[p].self].head = call[p].new
            \/ /\ commits[call[q].new].parent = call[p].new
               /\ trackers[call[p].self].head = call[q].new

\* C10: commit() and revert_to() take effect as one atomic unit.
C10_AtomicUnit == C10_NoPartialCommit /\ C10_SerialResult

\* The store as operation p found it: trees, commits and tracker rows.
StoreAsBefore(p) ==
    /\ trees = Pre(p).trees
    /\ commits = Pre(p).commits
    /\ trackers = Pre(p).trackers

\* C11: when commit(), revert_to(), reset() or delete() has raised, the
\* tracker rows, the commit rows and the trees are exactly what they were
\* when the call began.
C11_FailureLeavesStateUnchanged ==
    \A p \in Procs :
        (call[p].pc = "raised"
            /\ call[p].op \in {"commit", "revert_to", "reset", "delete"})
            => StoreAsBefore(p)

\* C12: when has_changes() has returned, its result is true exactly when the
\* tracker's head is null or the content of the working copy differs from
\* the content of the head's snapshot, and false exactly when the head is
\* non-null and the two contents are the same; the call never raises and
\* leaves every tracker, commit and tree as it found it.
C12_HasChangesContract ==
    \A p \in Procs :
        call[p].op = "has_changes" =>
            /\ call[p].pc # "raised"
            /\ StoreAsBefore(p)
            /\ call[p].pc = "ret" =>
                  LET t  == call[p].self
                      hd == trackers[t].head
                      wc == trackers[t].working_copy
                  IN  /\ call[p].result \in {<<TRUE>>, <<FALSE>>}
                      /\ call[p].result = <<TRUE>> <=>
                            (hd = None \/ Content(trees, wc)
                                          # Content(trees, commits[hd].root_node))
                      /\ call[p].result = <<FALSE>> <=>
                            (hd # None /\ Content(trees, wc)
                                          = Content(trees, commits[hd].root_node))

\* C12 witness: has_changes() has returned true on a tracker with a head,
\* whose working copy was edited after the commit.
C12_Witness ==
    \E p \in Procs :
        /\ Returned(p, "has_changes")
        /\ call[p].result = <<TRUE>>
        /\ trackers[call[p].self].head # None

\* C13: in every state the parent relation over commits is acyclic: the walk
\* of get_history() started at any commit C begins with C, steps from each
\* commit to its parent, visits no commit twice, and ends at a commit whose
\* parent is null within as many steps as there are commits.
C13_AcyclicHistory ==
    \A c \in DOMAIN commits :
        LET h == get_history(c) IN
        /\ Len(h) >= 1 /\ h[1] = c
        /\ Len(h) <= Cardinality(DOMAIN commits)
        /\ \A i \in 1..(Len(h) - 1) : commits[h[i]].parent = h[i + 1]
        /\ \A i, j \in 1..Len(h) : i # j => h[i] # h[j]
        /\ commits[h[Len(h)]].parent = None

\* C13 witness: between operations a tracker has a history of three
\* commits, one of them made by revert_to() (it shares its snapshot with an
\* older commit of the chain).
C13_Witness ==
    /\ AllIdle
    /\ \E t \in DOMAIN trackers :
          LET h == get_history(trackers[t].head) IN
          /\ Len(h) = 3
          /\ \E i, j \in 1..3 :
                i < j /\ commits[h[i]].root_node = commits[h[j]].root_node

\* C14: for every tracker row in every state, get_history_list() finds every
\* commit of the chain in its index of the tracker's commits, returns the
\* commits get_history() walks, in the same order (newest first, ending at
\* the commit with null parent), and returns the empty list when head is
\* null; the list delete() materialised is that walk too.
C14_HistoryListMatches ==
    /\ \A t \in DOMAIN trackers :
          LET l == get_history_list(t, trackers[t].head)
              h == get_history(trackers[t].head)
          IN  /\ l # KeyError
              /\ l = h
              /\ trackers[t].head = None => l = <<>>
              /\ trackers[t].head # None =>
                    /\ l[1] = trackers[t].head
                    /\ commits[l[Len(l)]].parent = None
              /\ \A i \in 1..(Len(l) - 1) : commits[l[i]].parent = l[i + 1]
    /\ \A p \in Procs :
          call[p].op = "delete" =>
              /\ call[p].err # "KeyError"
              /\ call[p].pc = "sever" =>
                    [i \in 1..Len(call[p].hist) |-> call[p].hist[i].id]
                        = get_history(call[p].head)

\* C14 witness: delete() has materialised a history list of two commits
\* while the other tracker has a commit of its own.
C14_Witness ==
    \E p \in Procs :
        /\ call[p].op = "delete" /\ call[p].pc = "sever"
        /\ Len(call[p].hist) = 2
        /\ \E c \in DOMAIN commits : commits[c].tracker # call[p].self

\* C16: reset() begun on a tracker with a non-null head returns, and then
\* the working copy is a tree allocated during the call, unfrozen, with the
\* content of the head's snapshot, has_changes() is false, and the head and
\* every commit row are the ones from before the call; when the head was
\* made by revert_to(C) (it shares C's snapshot tree), the working copy has
\* the content of C's snapshot.
C16_ResetRestoresHead ==
    \A p \in Procs :
        (call[p].op = "reset" /\ Pre(p).trackers[call[p].self].head # None) =>
            /\ call[p].pc # "raised"
            /\ call[p].pc = "ret" =>
                  LET t  == call[p].self
                      wc == trackers[t].working_copy
                      hd == trackers[t].head
                  IN  /\ hd = Pre(p).trackers[t].head
                      /\ commits = Pre(p).commits
                      /\ wc \notin DOMAIN Pre(p).trees
                      /\ wc \in DOMAIN trees
                      /\ ~trees[wc].frozen
                      /\ Content(trees, wc) = Content(trees, commits[hd].root_node)
                      /\ Content(trees, wc)
                         = Content(Pre(p).trees, Pre(p).commits[hd].root_node)
                      /\ ~has_changes(hd, wc)
                      /\ \A c \in DOMAIN commits :
                            commits[c].root_node = commits[hd].root_node =>
                                Content(trees, wc) = commits[c].created_with

\* C16 witness: reset() has returned on a tracker whose head was made by
\* revert_to(C) and whose working copy had been edited since, so that it
\* differed from C's snapshot when the call began.
C16_Witness ==
    \E p \in Procs :
        /\ Returned(p, "reset")
        /\ LET t  == call[p].self
               hd == Pre(p).trackers[t].head
           IN  /\ hd # None
               /\ \E c \in DOMAIN Pre(p).commits :
                     /\ c # hd
                     /\ Pre(p).commits[c].root_node = Pre(p).commits[hd].root_node
               /\ Content(Pre(p).trees, Pre(p).trackers[t].working_copy)
                  # Content(Pre(p).trees, Pre(p).commits[hd].root_node)

\* C17: reset() begun on a tracker with a head, whose working copy a row of
\* another model references, raises no error; when it has returned, the
\* tracker row holds the new working copy and the head from before the
\* call, and the old tree is still allocated, unchanged and not released.
C17_ResetToleratesProtectedTree ==
    \A p \in Procs :
        LET t   == call[p].self
            old == Pre(p).trackers[t].working_copy
        IN  (/\ call[p].op = "reset"
             /\ Pre(p).trackers[t].head # None
             /\ Pre(p).trees[old].pinned) =>
                /\ call[p].pc # "raised"
                /\ call[p].pc = "ret" =>
                      /\ trackers[t].working_copy = call[p].clone
                      /\ call[p].clone \notin DOMAIN Pre(p).trees
                      /\ call[p].clone \in DOMAIN trees
                      /\ trackers[t].head = Pre(p).trackers[t].head
                      /\ old \in DOMAIN trees
                      /\ trees[old] = Pre(p).trees[old]
                      /\ released[old] = Pre(p).released[old]

\* C17 witness: reset() has returned on a tracker whose old working copy was
\* referenced by a row of another model.
C17_Witness ==
    \E p \in Procs :
        /\ Returned(p, "reset")
        /\ Pre(p).trees[Pre(p).trackers[call[p].self].working_copy].pinned
        /\ call[p].old \in DOMAIN trees

\* The trees that were made as a working copy or snapshot of tracker t, or
\* were the snapshot of a commit of its history when delete() began.
EverOwned(p) ==
    {r \in TreeIds : r \in DOMAIN trees /\ trees[r].made_for = call[p].self}
    \cup OwnedBefore(p)

\* C18 as stated: when delete() has returned, no tree that ever was the
\* tracker's working copy or the snapshot of one of its commits is still
\* allocated unless a tracker or a commit references it.
C18_DeleteReleasesEverOwned ==
    \A p \in Procs :
        Returned(p, "delete") =>
            \A r \in EverOwned(p) :
                r \in DOMAIN trees => VersioningReferrers(r) # {}

\* C18 as amended: when delete() has returned, the working copy the tracker
\* had when the call began and the snapshot of every commit of its history
\* have each been released once; a tree made for the tracker that is still
\* allocated and unreferenced was already unreferenced by tracker and
\* commits when the call began (reset() had left it behind).
C18_DeleteReleasesCurrentTrees ==
    \A p \in Procs :
        Returned(p, "delete") =>
            /\ \A r \in OwnedBefore(p) :
                  /\ r \notin DOMAIN trees
                  /\ released[r] = Pre(p).released[r] + 1
            /\ \A r \in EverOwned(p) :
                  (r \in DOMAIN trees /\ VersioningReferrers(r) = {}) =>
                      /\ r \in DOMAIN Pre(p).trees
                      /\ r \notin OwnedBefore(p)
                      /\ \A u \in DOMAIN Pre(p).trackers :
                            Pre(p).trackers[u].working_copy # r
                      /\ \A c \in DOMAIN Pre(p).commits :
                            Pre(p).commits[c].root_node # r

\* C18 witness: delete() has returned on a tracker with a commit while a
\* tree an earlier reset() left behind is still allocated.
C18_Witness ==
    \E p \in Procs :
        /\ Returned(p, "delete")
        /\ Pre(p).trackers[call[p].self].head # None
        /\ \E r \in DOMAIN trees :
              trees[r].made_for = call[p].self /\ VersioningReferrers(r) = {}

\* The first position of the walk h whose commit satisfies Q, 0 when none.
FirstWhere(h, Q(_)) ==
    IF \E i \in 1..Len(h) : Q(h[i])
    THEN CHOOSE i \in 1..Len(h) : Q(h[i]) /\ \A j \in 1..(i - 1) : ~Q(h[j])
    ELSE 0

\* C15: when get_published_node() has returned, its result is the snapshot
\* of the first commit, newest first from the head, whose publish_at is not
\* after now, and none when the history has no such commit (head null
\* included); the reviewed tracker's result is the snapshot of the first
\* commit that is published and has both approval fields set, whatever
\* newer commits are unapproved or scheduled later. Neither changes the
\* store.
C15_PublishedNode ==
    \A p \in Procs :
        LET h == get_history(trackers[call[p].self].head)
            Pub(c) == commits[c].publish_at <= now
            PubAppr(c) == /\ commits[c].publish_at <= now
                          /\ commits[c].approved_by \in Users
                          /\ commits[c].approved_at # None
            Snapshot(i) == IF i = 0 THEN None ELSE commits[h[i]].root_node
        IN  /\ Returned(p, "get_published_node") =>
                  /\ call[p].result = <<Snapshot(FirstWhere(h, Pub))>>
                  /\ StoreAsBefore(p)
            /\ Returned(p, "reviewed_get_published_node") =>
                  /\ call[p].result = <<Snapshot(FirstWhere(h, PubAppr))>>
                  /\ StoreAsBefore(p)

\* C15 witness: the reviewed get_published_node() has returned the snapshot
\* of the oldest of three commits, the newest being scheduled for later and
\* the middle one published but not approved.
C15_Witness ==
    \E p \in Procs :
        /\ Returned(p, "reviewed_get_published_node")
        /\ LET h == get_history(trackers[call[p].self].head) IN
           /\ Len(h) = 3
           /\ commits[h[1]].publish_at > now
           /\ commits[h[2]].publish_at <= now /\ commits[h[2]].approved_by = None
           /\ call[p].result = <<commits[h[3]].root_node>>

\* C19 (state part): is_approved of a commit is true exactly when its
\* approver is a user and its approval timestamp is a time; when
\* approve(approver) has returned, the commit holds that approver and the
\* current time, is_approved is true, and every other field of the commit,
\* every other commit, every tree and every tracker row is as before.
C19_AtReturn ==
    /\ \A c \in DOMAIN commits :
          is_approved(commits[c]) <=>
              (commits[c].approved_by \in Users /\ commits[c].approved_at \in 1..now)
    /\ \A p \in Procs :
          Returned(p, "approve") =>
              LET c == call[p].arg IN
              /\ commits[c].approved_by = call[p].user
              /\ commits[c].approved_at = now
              /\ is_approved(commits[c])
              /\ [commits[c] EXCEPT !.approved_by = Pre(p).commits[c].approved_by,
                                    !.approved_at = Pre(p).commits[c].approved_at]
                 = Pre(p).commits[c]
              /\ DOMAIN commits = DOMAIN Pre(p).commits
              /\ \A d \in DOMAIN commits \ {c} : commits[d] = Pre(p).commits[d]
              /\ trees = Pre(p).trees
              /\ trackers = Pre(p).trackers

\* C19 (step part): no step takes is_approved of a commit from true to
\* false.
C19_StaysApproved ==
    \A c \in DOMAIN commits :
        is_approved(commits[c]) => (c \in DOMAIN commits' /\ is_approved(commits'[c]))

\* C19: approval sets both fields, a later approval replaces them and keeps
\* the commit approved, and approve() touches nothing else.
C19_Approval == []C19_AtReturn /\ [][C19_StaysApproved]_vars

\* C19 witness: approve() has returned on a commit that another user had
\* approved at an earlier time.
C19_Witness ==
    \E p \in Procs :
        /\ Returned(p, "approve")
        /\ Pre(p).commits[call[p].arg].approved_by \notin {None, call[p].user}
        /\ Pre(p).commits[call[p].arg].approved_at < now

\* The commits filed under tracker u and the trees they and u reference.
CommitsOf(rows, u) == {c \in DOMAIN rows : rows[c].tracker = u}
TreesOf(u) ==
    {trackers[u].working_copy} \cup {commits[c].root_node : c \in CommitsOf(commits, u)}

\* C20 (state part): when commit() on tracker T has returned, whatever the
\* other tracker's commit() did in between, T's head is the new commit, its
\* parent is T's head from before the call, its snapshot is a new frozen
\* tree with the content T's working copy had, T's history is the new
\* commit followed by the old history, T's older commits and its working
\* copy are unchanged: the outcome of the call running alone.
C20_AtReturn ==
    \A p \in Procs :
        Returned(p, "commit") =>
            LET t   == call[p].self
                new == call[p].new
                wc  == Pre(p).trackers[t].working_copy
            IN  /\ trackers[t] = [head |-> new, working_copy |-> wc]
                /\ commits[new].tracker = t
                /\ commits[new].parent = Pre(p).trackers[t].head
                /\ commits[new].root_node \notin DOMAIN Pre(p).trees
                /\ trees[commits[new].root_node].frozen
                /\ Content(trees, commits[new].root_node) = Content(Pre(p).trees, wc)
                /\ trees[wc] = Pre(p).trees[wc]
                /\ CommitsOf(commits, t) = CommitsOf(Pre(p).commits, t) \cup {new}
                /\ \A c \in CommitsOf(Pre(p).commits, t) : commits[c] = Pre(p).commits[c]
                /\ get_history(new)
                   = <<new>> \o HistoryFrom(Pre(p).commits, Pre(p).trackers[t].head,
                                            MaxCommits + 1)

\* C20 (step part): a step of a call on tracker T leaves the row of every
\* other tracker, the commits filed under it and the trees it references as
\* they are.
C20_Frame ==
    \A p \in Procs :
        call'[p] # call[p] =>
            LET t == IF call[p].self # None THEN call[p].self ELSE call'[p].self IN
            \A u \in DOMAIN trackers \ {t} :
                /\ u \in DOMAIN trackers' /\ trackers'[u] = trackers[u]
                /\ CommitsOf(commits', u) = CommitsOf(commits, u)
                /\ \A c \in CommitsOf(commits, u) : commits'[c] = commits[c]
                /\ \A r \in TreesOf(u) : r \in DOMAIN trees' /\ trees'[r] = trees[r]

\* C20: commit() on one tracker and commit() on another never interact.
C20_TrackersIndependent == []C20_AtReturn /\ [][C20_Frame]_vars

\* C20 witness: both callers have returned from commit() calls whose
\* statements interleaved: caller 1 cloned first, caller 2 created its
\* commit first.
C20_Witness ==
    /\ Returned(1, "commit") /\ Returned(2, "commit")
    /\ call[1].self # call[2].self
    /\ call[1].clone < call[2].clone
    /\ call[2].new < call[1].new

\* C21 (state part): while revert_to() or reset() has not yet saved the
\* tracker, the old working copy is allocated, unreleased and still the
\* stored working copy; when the call is about to release it, the stored
\* working copy is the new clone, an allocated tree other than the old one;
\* and the stored working copy of every tracker is an allocated tree.
C21_AtEachStep ==
    /\ \A t \in DOMAIN trackers : trackers[t].working_copy \in DOMAIN trees
    /\ \A p \in Procs :
          call[p].op \in {"revert_to", "reset"} =>
              LET t   == call[p].self
                  old == Pre(p).trackers[t].working_copy
              IN  /\ call[p].pc \in {"create", "clone", "save"} =>
                        /\ trackers[t].working_copy = old
                        /\ old \in DOMAIN trees
                        /\ released[old] = Pre(p).released[old]
                  /\ call[p].pc = "release" =>
                        /\ call[p].old = old
                        /\ trackers[t].working_copy = call[p].clone
                        /\ call[p].clone # old
                        /\ call[p].clone \in DOMAIN trees
                        /\ old \in DOMAIN trees

\* C21 (step part): a step that releases a tree releases one that is no
\* tracker's stored working copy before the step.
C21_ReleaseAfterSave ==
    \A r \in TreeIds :
        released'[r] > released[r] =>
            \A t \in DOMAIN trackers : trackers[t].working_copy # r

\* C21: in revert_to() and reset() the tracker is saved with its new working
\* copy before the old working tree is released.
C21_SaveBeforeRelease == []C21_AtEachStep /\ [][C21_ReleaseAfterSave]_vars

\* C21 witness: revert_to() has released an edited old working copy and
\* returned.
C21_Witness ==
    \E p \in Procs :
        /\ Returned(p, "revert_to")
        /\ call[p].old \notin DOMAIN trees
        /\ released[call[p].old] = Pre(p).released[call[p].old] + 1
        /\ Content(Pre(p).trees, call[p].old) # <<>>

\* C22: reset() begun on a tracker whose head is null ends in an error
\* before anything changed: the instance's working copy is the one from
\* before the call, no clone was made, and trees, commits, tracker rows and
\* release counts are those from before the call.
C22_ResetNullHeadFails ==
    \A p \in Procs :
        (call[p].op = "reset" /\ Pre(p).trackers[call[p].self].head = None) =>
            /\ call[p].pc \in {"clone", "raised"}
            /\ call[p].working_copy = Pre(p).trackers[call[p].self].working_copy
            /\ call[p].clone = None
            /\ StoreAsBefore(p)
            /\ released = Pre(p).released
            /\ DOMAIN trees \subseteq 1..(nextTree - 1)
            /\ call[p].pc = "raised" => call[p].err = "AttributeError"

\* C22 witness: reset() has raised on a tracker that never committed and
\* whose working copy had been edited.
C22_Witness ==
    \E p \in Procs :
        /\ call[p].op = "reset" /\ call[p].pc = "raised"
        /\ trackers[call[p].self].head = None
        /\ Content(trees, trackers[call[p].self].working_copy) # <<>>

\* C23: in save_model a commit is created only when the tracker had changes
\* when the request began (has_changes() true); whenever the request has
\* set the page's status to published, by the commit path without review
\* queue or by the approve path, the tracker's head is non-null; and in the
\* approve path approve() is applied to the tracker's non-null head, which
\* is the commit the request created when there were changes and the head
\* from before the request otherwise. The request raises no error.
C23_SaveModel ==
    \A p \in Procs :
        call[p].admin # <<>> =>
            LET a == call[p].admin[1]
                t == a.tracker
            IN  /\ call[p].pc # "raised"
                /\ (call[p].op = "commit" \/ a.created # None
                        \/ DOMAIN commits # a.commits0) => a.dirty0
                /\ a.created # None =>
                      DOMAIN commits = a.commits0 \cup {a.created}
                /\ a.published_here =>
                      /\ a.status = "published"
                      /\ trackers[t].head # None
                      /\ \/ a.button = "_save_and_commit" /\ ~a.review
                         \/ a.button = "_save_and_approve" /\ a.review
                /\ (call[p].op = "approve" \/ a.approved # None) =>
                      /\ a.button = "_save_and_approve"
                      /\ a.approved # None
                      /\ a.approved \in DOMAIN commits
                      /\ a.approved = trackers[t].head
                      /\ IF a.dirty0
                         THEN a.approved = a.created /\ a.approved \notin a.commits0
                         ELSE a.approved = a.head0 /\ a.created = None
                /\ (a.published_here /\ a.button = "_save_and_approve") =>
                      /\ commits[a.approved].approved_by = a.user
                      /\ commits[a.approved].approved_at = now

\* C23 witness: a request has gone through the approve path on a tracker
\* without changes: it approved the existing head and published the page.
C23_Witness ==
    \E p \in Procs :
        /\ call[p].op = "save_model" /\ call[p].pc = "ret"
        /\ LET a == call[p].admin[1] IN
           /\ a.button = "_save_and_approve"
           /\ ~a.dirty0
           /\ a.published_here
           /\ a.approved = a.head0
           /\ a.status = "published"

=============================================================================
